---- MODULE Spec2Model ----
(***************************************************************************)
(* ips (src/main.go): a single-shot command that collects the public IP    *)
(* address and/or the addresses of the local network interfaces and prints *)
(* them as text lines or as one JSON array.                                *)
(*                                                                         *)
(* A Go string is modelled as the sequence of its characters (one-char     *)
(* TLA+ strings); an interface name is kept as one atomic token.  Standard *)
(* output is the sequence of writes made to it: one entry per fmt.Println  *)
(* call ("data") and one per emitted slog record ("log").                  *)
(***************************************************************************)
EXTENDS Integers, Sequences, FiniteSets, TLC

VARIABLES
    public,       \* flag -p
    all,          \* flag -a
    jsonOutput,   \* flag -json
    logLevel,     \* flag -l
    handlerLevel, \* slog.HandlerOptions.Level of the logger built in main
    pc,           \* position of the (single) thread of control
    ips,          \* getIpAddresses' local slice, then run's ips
    err,          \* the error getIpAddresses / run returns
    resp,         \* getPublicIp's *http.Response (local to getPublicIp)
    publicIp,     \* getIpAddresses' publicIp: <<>> is nil, <<i>> points to i
    interfaces,   \* the slice net.Interfaces() returned
    idx,          \* position of the range loop over interfaces
    osAddrs,      \* what i.Addrs() reported for the interfaces visited so far
    calls,        \* the calls made to the network and to the OS, in order
    stdout,       \* the writes to os.Stdout, in order
    exitCode      \* the process' exit status, NotExited while it runs

vars == <<public, all, jsonOutput, logLevel, handlerLevel, pc, ips, err, resp,
          publicIp, interfaces, idx, osAddrs, calls, stdout, exitCode>>

----------------------------------------------------------------------------
(* Bounds of the model *)

MaxLogLevel == 3
MaxIfaces == 3
MaxAddrs == 2
MaxBody == 3

----------------------------------------------------------------------------
(* Values *)

\* log/slog's levels
LevelDebug == -4
LevelInfo == 0
LevelWarn == 4
LevelError == 8

NoErr == "nil"
NotExited == -1
NoResp == [StatusCode |-> 0, Body |-> <<>>, Readable |-> FALSE]
PublicLabel == "public"

\* The characters a response body is made of: a white space and a digit.
BodyChars == {"\n", "7"}
StatusCodes == {200, 503}

RECURSIVE SeqsUpTo(_, _)
SeqsUpTo(S, n) ==
    IF n = 0 THEN {<<>>}
    ELSE LET shorter == SeqsUpTo(S, n - 1)
         IN  shorter \cup {Append(s, c) : s \in {t \in shorter : Len(t) = n - 1}, c \in S}

Bodies == SeqsUpTo(BodyChars, MaxBody)

Digits == <<"1", "2", "3", "4", "5", "6", "7", "8", "9">>

\* The name of the k-th interface of the OS' table.  Linux accepts any name
\* without '/' and white space, "public" included.
IfName(k) ==
    CASE k = 1 -> "eth0"
      [] k = 2 -> "public"
      [] k = 3 -> "lo"
      [] k = 4 -> "wlan0"
      [] OTHER -> "tun0"

\* addr.String() of the j-th address of the k-th interface.
OsAddr(k, j) == <<"1", "0", ".", Digits[k], ".", Digits[j], "/", "8">>

\* The address list i.Addrs() reports for the k-th interface when it holds n addresses.
OsAddrList(k, n) == [j \in 1..n |-> OsAddr(k, j)]

----------------------------------------------------------------------------
(* Pure functions of the program and of the library calls it makes *)

\* unicode.IsSpace, on the characters of the model
IsSpace(c) == c \in {" ", "\t", "\n", "\r"}

RECURSIVE TrimLeft(_)
TrimLeft(s) == IF s # <<>> /\ IsSpace(Head(s)) THEN TrimLeft(Tail(s)) ELSE s

RECURSIVE TrimRight(_)
TrimRight(s) ==
    IF s # <<>> /\ IsSpace(s[Len(s)]) THEN TrimRight(SubSeq(s, 1, Len(s) - 1)) ELSE s

\* strings.TrimSpace
TrimSpace(s) == TrimLeft(TrimRight(s))

\* ip.String(): fmt.Sprintf("%s\t%s", i.Address, i.Interface)
String(i) == i.Address \o <<"\t", i.Interface>>

\* the zero value of a slice
nil_ips == [nil |-> TRUE, elems |-> <<>>]

\* variant: var ips ips, which leaves the slice nil
make_ips_Nil == [nil |-> TRUE, elems |-> <<>>]

\* make(ips, 0): an empty slice that is not nil
make_ips == [nil |-> FALSE, elems |-> <<>>]

\* append(ips, i)
append(s, i) == [nil |-> FALSE, elems |-> Append(s.elems, i)]

\* encoding/json's encoding of the characters of a string
Escape(c) ==
    CASE c = "\n" -> <<"\\", "n">>
      [] c = "\t" -> <<"\\", "t">>
      [] c = "\r" -> <<"\\", "r">>
      [] c = "\"" -> <<"\\", "\"">>
      [] c = "\\" -> <<"\\", "\\">>
      [] OTHER -> <<c>>

RECURSIVE EscapeAll(_)
EscapeAll(s) == IF s = <<>> THEN <<>> ELSE Escape(Head(s)) \o EscapeAll(Tail(s))

Quote(s) == <<"\"">> \o EscapeAll(s) \o <<"\"">>

\* encoding/json's encoding of one *ip: the exported fields in declaration order
MarshalIp(i) ==
    <<"{">> \o Quote(<<"Address">>) \o <<":">> \o Quote(i.Address) \o <<",">>
            \o Quote(<<"Interface">>) \o <<":">> \o Quote(<<i.Interface>>) \o <<"}">>

RECURSIVE MarshalElems(_)
MarshalElems(s) ==
    IF s = <<>> THEN <<>>
    ELSE IF Len(s) = 1 THEN MarshalIp(s[1])
    ELSE MarshalIp(s[1]) \o <<",">> \o MarshalElems(Tail(s))

\* json.Marshal(ips): a nil slice encodes as null, any other as an array.
\* encoding/json fails only on unsupported types, cyclic values and failing
\* Marshalers; a slice of pointers to structs of two strings is none of
\* these (invalid UTF-8 is replaced, not refused), so err is always nil here.
json_Marshal(s) ==
    [data |-> IF s.nil THEN <<"null">> ELSE <<"[">> \o MarshalElems(s.elems) \o <<"]">>,
     err  |-> NoErr]

\* http.NewRequest fails on an invalid method or an unparsable URL only; main.go
\* passes the constants "GET" and "https://wtfismyip.com/text".
ValidMethods == {"GET", "HEAD", "POST", "PUT", "DELETE"}
NewRequestErr(method) == IF method \in ValidMethods THEN NoErr ELSE "http.NewRequest"

\* the switch on logLevel in main
HandlerLevel(l) ==
    CASE l = 0 -> LevelWarn
      [] l = 1 -> LevelInfo
      [] l = 2 -> LevelDebug
      [] OTHER -> LevelInfo

\* variant: the level comparison turned around
LogWrites_Inverted(min, lvl, msg) ==
    IF lvl <= min THEN <<[stream |-> "log", line |-> <<msg>>, level |-> lvl]>> ELSE <<>>

\* slog: a record is written when its level is at least the handler's
LogWrites(min, lvl, msg) ==
    IF lvl >= min THEN <<[stream |-> "log", line |-> <<msg>>, level |-> lvl]>> ELSE <<>>

\* fmt.Println
Println(toks) == [stream |-> "data", line |-> toks, level |-> 0]

\* variant: a status other than 200 is an error
ReadBody_ChecksStatus(r) ==
    IF ~r.Readable \/ r.StatusCode # 200
    THEN [ip |-> <<>>, err |-> "io.ReadAll"]
    ELSE [ip |-> <<[Address |-> TrimSpace(r.Body), Interface |-> PublicLabel]>>, err |-> NoErr]

\* getPublicIp, lines 155-163: read the body; the status code is not looked at
ReadBody(r) ==
    IF ~r.Readable
    THEN [ip |-> <<>>, err |-> "io.ReadAll"]
    ELSE [ip |-> <<[Address |-> TrimSpace(r.Body), Interface |-> PublicLabel]>>, err |-> NoErr]

\* variant: -a alone makes no lookup
LookupWanted_PublicOnly(p, a) == p

\* getIpAddresses, line 105: is the public address looked up?
LookupWanted(p, a) == p \/ a

\* variant: -p wins over -a
PublicOnly_IgnoresAll(p, a) == p

\* variant: no early return
PublicOnly_Never(p, a) == FALSE

\* getIpAddresses, line 114: return the public address alone?
PublicOnly(p, a) == ~a /\ p

\* variant: an interface's addresses appended last to first
RECURSIVE AppendAddrs_Reversed(_, _, _)
AppendAddrs_Reversed(s, name, addrs) ==
    IF addrs = <<>> THEN s
    ELSE append(AppendAddrs_Reversed(s, name, Tail(addrs)),
                [Address |-> Head(addrs), Interface |-> name])

\* getIpAddresses, lines 126-134: the records of one interface, appended in order
RECURSIVE AppendAddrs(_, _, _)
AppendAddrs(s, name, addrs) ==
    IF addrs = <<>> THEN s
    ELSE AppendAddrs(append(s, [Address |-> Head(addrs), Interface |-> name]),
                     name, Tail(addrs))

\* run, lines 86-96: what is printed for a complete collection
RunPrints(asJson, s) ==
    IF asJson
    THEN LET m == json_Marshal(s)
         IN  IF m.err # NoErr THEN <<>> ELSE <<Println(m.data)>>
    ELSE [k \in 1..Len(s.elems) |-> Println(String(s.elems[k]))]

\* variant: what was collected is printed after an error too
RunWrites_PrintsPartial(e, min, asJson, s) ==
    (IF e # NoErr THEN LogWrites(min, LevelError, "could not get ip addresses") ELSE <<>>)
        \o RunPrints(asJson, s)

\* run, lines 82-96: what run writes to standard output
RunWrites(e, min, asJson, s) ==
    IF e # NoErr
    THEN LogWrites(min, LevelError, "could not get ip addresses")
    ELSE RunPrints(asJson, s)

\* variant: run's error is dropped
ExitStatus_AlwaysZero(e) == 0

\* main, lines 73-75
ExitStatus(e) == IF e # NoErr THEN 1 ELSE 0

----------------------------------------------------------------------------
(* The program *)

\* The state after flag.Parse() returned: the four flags hold any values.
Init ==
    /\ public \in BOOLEAN
    /\ all \in BOOLEAN
    /\ jsonOutput \in BOOLEAN
    /\ logLevel \in 0..MaxLogLevel
    /\ handlerLevel = LevelInfo
    /\ pc = "main"
    /\ ips = nil_ips
    /\ err = NoErr
    /\ resp = NoResp
    /\ publicIp = <<>>
    /\ interfaces = <<>>
    /\ idx = 0
    /\ osAddrs = <<>>
    /\ calls = <<>>
    /\ stdout = <<>>
    /\ exitCode = NotExited

\* main, lines 51-73: build the logger, log "starting", call run, which calls
\* getIpAddresses
Main ==
    /\ pc = "main"
    /\ handlerLevel' = HandlerLevel(logLevel)
    /\ stdout' = stdout \o LogWrites(HandlerLevel(logLevel), LevelDebug, "starting")
    /\ pc' = "getIpAddresses"
    /\ UNCHANGED <<public, all, jsonOutput, logLevel, ips, err, resp, publicIp, interfaces,
                   idx, osAddrs, calls, exitCode>>

\* getIpAddresses, lines 104-105 (and 114 when no lookup is wanted)
GetIpAddresses ==
    /\ pc = "getIpAddresses"
    /\ ips' = make_ips
    /\ pc' = IF LookupWanted(public, all) THEN "getPublicIp"
             ELSE IF PublicOnly(public, all) THEN "run"
             ELSE "netInterfaces"
    /\ UNCHANGED <<public, all, jsonOutput, logLevel, handlerLevel, err, resp, publicIp,
                   interfaces, idx, osAddrs, calls, stdout, exitCode>>

\* getPublicIp, lines 142-152: build the request and send it; on an error
\* getPublicIp returns (nil, err) and getIpAddresses returns (ips, err), line 108
GetPublicIp ==
    /\ pc = "getPublicIp"
    /\ IF NewRequestErr("GET") # NoErr
       THEN /\ err' = NewRequestErr("GET")
            /\ pc' = "run"
            /\ UNCHANGED <<resp, publicIp, calls>>
       ELSE /\ calls' = Append(calls, "client.Do")
            /\ \/ /\ err' = "client.Do"
                  /\ pc' = "run"
                  /\ UNCHANGED resp
               \/ /\ \E sc \in StatusCodes, b \in Bodies, r \in BOOLEAN :
                        resp' = [StatusCode |-> sc, Body |-> b, Readable |-> r]
                  /\ pc' = "readAll"
                  /\ UNCHANGED err
    /\ UNCHANGED <<public, all, jsonOutput, logLevel, handlerLevel, ips, publicIp,
                   interfaces, idx, osAddrs, stdout, exitCode>>

\* getPublicIp, lines 155-163, returns to getIpAddresses, lines 106-116
ReadAll ==
    /\ pc = "readAll"
    /\ LET got == ReadBody(resp)
       IN  /\ publicIp' = got.ip
           /\ err' = got.err
           /\ IF got.err # NoErr
              THEN /\ pc' = "run"
                   /\ UNCHANGED ips
              ELSE /\ ips' = IF got.ip # <<>> THEN append(ips, got.ip[1]) ELSE ips
                   /\ pc' = IF PublicOnly(public, all) THEN "run" ELSE "netInterfaces"
    /\ resp' = NoResp
    /\ UNCHANGED <<public, all, jsonOutput, logLevel, handlerLevel,
                   interfaces, idx, osAddrs, calls, stdout, exitCode>>

\* getIpAddresses, lines 117-120 (and 136 when the table is empty)
NetInterfaces ==
    /\ pc = "netInterfaces"
    /\ calls' = Append(calls, "net.Interfaces")
    /\ \/ /\ err' = "net.Interfaces"
          /\ pc' = "run"
          /\ UNCHANGED <<interfaces, idx>>
       \/ /\ \E n \in 0..MaxIfaces :
                /\ interfaces' = [k \in 1..n |-> IfName(k)]
                /\ idx' = 1
                /\ pc' = IF n = 0 THEN "run" ELSE "addrs"
          /\ UNCHANGED err
    /\ UNCHANGED <<public, all, jsonOutput, logLevel, handlerLevel, ips, resp, publicIp,
                   osAddrs, stdout, exitCode>>

\* getIpAddresses, lines 121-136: one iteration of the loop over the interfaces
Addrs ==
    /\ pc = "addrs"
    /\ idx <= Len(interfaces)
    /\ calls' = Append(calls, "Addrs")
    /\ \/ /\ err' = "Addrs"
          /\ pc' = "run"
          /\ UNCHANGED <<ips, idx, osAddrs>>
       \/ /\ \E n \in 0..MaxAddrs :
                /\ osAddrs' = Append(osAddrs, OsAddrList(idx, n))
                /\ ips' = AppendAddrs(ips, interfaces[idx], OsAddrList(idx, n))
          /\ idx' = idx + 1
          /\ pc' = IF idx = Len(interfaces) THEN "run" ELSE "addrs"
          /\ UNCHANGED err
    /\ UNCHANGED <<public, all, jsonOutput, logLevel, handlerLevel, resp, publicIp,
                   interfaces, stdout, exitCode>>

\* run, lines 81-98
Run ==
    /\ pc = "run"
    /\ stdout' = stdout \o RunWrites(err, handlerLevel, jsonOutput, ips)
    /\ err' = IF err = NoErr /\ jsonOutput THEN json_Marshal(ips).err ELSE err
    /\ pc' = "exit"
    /\ UNCHANGED <<public, all, jsonOutput, logLevel, handlerLevel, ips, resp, publicIp,
                   interfaces, idx, osAddrs, calls, exitCode>>

\* main, lines 73-76
Exit ==
    /\ pc = "exit"
    /\ exitCode' = ExitStatus(err)
    /\ pc' = "exited"
    /\ UNCHANGED <<public, all, jsonOutput, logLevel, handlerLevel, ips, err, resp, publicIp,
                   interfaces, idx, osAddrs, calls, stdout>>

Next ==
    \/ Main
    \/ GetIpAddresses
    \/ GetPublicIp
    \/ ReadAll
    \/ NetInterfaces
    \/ Addrs
    \/ Run
    \/ Exit

Spec == Init /\ [][Next]_vars

----------------------------------------------------------------------------
(* What a run has done, read back from its state *)

Exited == pc = "exited"

\* the lines printed with fmt.Println, in order
DataLines ==
    LET d == SelectSeq(stdout, LAMBDA w : w.stream = "data")
    IN  [k \in 1..Len(d) |-> d[k].line]

\* the slog records of level Error written to standard output
ErrorLogs == SelectSeq(stdout, LAMBDA w : w.stream = "log" /\ w.level = LevelError)

\* how often f was called
Count(f) == Cardinality({k \in 1..Len(calls) : calls[k] = f})

LookupErrs == {"http.NewRequest", "client.Do", "io.ReadAll"}
EnumErrs == {"net.Interfaces", "Addrs"}

\* a text line read back: the address, a tab, the interface
ParseTextLine(l) ==
    IF Len(l) >= 2 /\ l[Len(l) - 1] = "\t"
    THEN [Address |-> SubSeq(l, 1, Len(l) - 2), Interface |-> l[Len(l)]]
    ELSE [Address |-> <<"?">>, Interface |-> "?"]

Unescape(c) ==
    CASE c = "n" -> "\n"
      [] c = "t" -> "\t"
      [] c = "r" -> "\r"
      [] OTHER -> c

\* the characters of a JSON string whose opening quote was read, with what follows it
RECURSIVE ReadChars(_, _)
ReadChars(t, acc) ==
    IF t = <<>> THEN [ok |-> FALSE, val |-> acc, rest |-> <<>>]
    ELSE IF t[1] = "\"" THEN [ok |-> TRUE, val |-> acc, rest |-> Tail(t)]
    ELSE IF t[1] = "\\"
         THEN IF Len(t) < 2 THEN [ok |-> FALSE, val |-> acc, rest |-> <<>>]
              ELSE ReadChars(SubSeq(t, 3, Len(t)), Append(acc, Unescape(t[2])))
    ELSE ReadChars(Tail(t), Append(acc, t[1]))

\* t starts with the tokens p
StartsWith(t, p) == Len(t) >= Len(p) /\ SubSeq(t, 1, Len(p)) = p

Drop(t, n) == SubSeq(t, n + 1, Len(t))

\* one JSON object {"Address":"...","Interface":"..."} at the head of t
ReadObject(t) ==
    LET bad == [ok |-> FALSE, val |-> [Address |-> <<>>, Interface |-> "?"], rest |-> <<>>]
        h1  == <<"{", "\"", "Address", "\"", ":", "\"">>
        h2  == <<",", "\"", "Interface", "\"", ":", "\"">>
    IN  IF ~StartsWith(t, h1) THEN bad
        ELSE LET a == ReadChars(Drop(t, Len(h1)), <<>>)
             IN  IF ~a.ok \/ ~StartsWith(a.rest, h2) THEN bad
                 ELSE LET n == ReadChars(Drop(a.rest, Len(h2)), <<>>)
                      IN  IF ~n.ok \/ Len(n.val) # 1 \/ ~StartsWith(n.rest, <<"}">>) THEN bad
                          ELSE [ok   |-> TRUE,
                                val  |-> [Address |-> a.val, Interface |-> n.val[1]],
                                rest |-> Tail(n.rest)]

\* the objects of a JSON array whose "[" was read, up to its "]"
RECURSIVE ReadObjects(_, _)
ReadObjects(t, acc) ==
    LET o == ReadObject(t)
    IN  IF ~o.ok THEN [ok |-> FALSE, val |-> acc]
        ELSE IF o.rest = <<"]">> THEN [ok |-> TRUE, val |-> Append(acc, o.val)]
        ELSE IF StartsWith(o.rest, <<",">>) THEN ReadObjects(Tail(o.rest), Append(acc, o.val))
        ELSE [ok |-> FALSE, val |-> acc]

\* json.Unmarshal of a line into a slice of records; null decodes to no array
Unmarshal(t) ==
    IF t = <<"[", "]">> THEN [ok |-> TRUE, array |-> TRUE, val |-> <<>>]
    ELSE IF t = <<"null">> THEN [ok |-> TRUE, array |-> FALSE, val |-> <<>>]
    ELSE IF StartsWith(t, <<"[">>)
         THEN LET r == ReadObjects(Tail(t), <<>>)
              IN  [ok |-> r.ok, array |-> TRUE, val |-> r.val]
    ELSE [ok |-> FALSE, array |-> FALSE, val |-> <<>>]

\* the records a run emitted, read back from its standard output
Emitted ==
    IF jsonOutput
    THEN IF Len(DataLines) = 1 THEN Unmarshal(DataLines[1]).val ELSE <<>>
    ELSE [k \in 1..Len(DataLines) |-> ParseTextLine(DataLines[k])]

\* the local enumeration: the interfaces in the OS' order, each with its
\* addresses in the order the OS reported them
RECURSIVE LocalRecords(_)
LocalRecords(n) ==
    IF n = 0 THEN <<>>
    ELSE LocalRecords(n - 1)
         \o [j \in 1..Len(osAddrs[n]) |-> [Address |-> osAddrs[n][j], Interface |-> interfaces[n]]]

\* the enumeration was made and every read of it succeeded
EnumerationDone == Count("net.Interfaces") = 1 /\ Len(osAddrs) = Len(interfaces)

\* a run that ended without an error
Succeeded == Exited /\ err = NoErr

\* a is b without its leading and trailing white space
IsTrimOf(a, b) ==
    \E i \in 0..Len(b) :
        /\ i + Len(a) <= Len(b)
        /\ a = SubSeq(b, i + 1, i + Len(a))
        /\ \A k \in 1..Len(b) : (k <= i \/ k > i + Len(a)) => IsSpace(b[k])
        /\ a # <<>> => ~IsSpace(a[1]) /\ ~IsSpace(a[Len(a)])

----------------------------------------------------------------------------
(* The claims *)

\* C1, as stated: a successful run with public=false and all=false emits
\* exactly the local enumeration, and no emitted record has Interface "public".
C1_Original ==
    (Succeeded /\ ~public /\ ~all) =>
        /\ Emitted = LocalRecords(Len(interfaces))
        /\ \A k \in 1..Len(Emitted) : Emitted[k].Interface # PublicLabel

\* C1, amended: a successful run with public=false and all=false emits exactly
\* the local enumeration (interfaces in OS order, each interface's addresses in
\* reported order, one record per address under the interface's name) and
\* makes no public lookup; a record has Interface "public" only when a local
\* interface of that name reported it.
C1_LocalOnly ==
    (Succeeded /\ ~public /\ ~all) =>
        /\ EnumerationDone
        /\ Emitted = LocalRecords(Len(interfaces))
        /\ Count("client.Do") = 0
        /\ publicIp = <<>>
        /\ \A k \in 1..Len(Emitted) :
              Emitted[k].Interface = PublicLabel =>
                  \E n \in 1..Len(interfaces) :
                      /\ interfaces[n] = PublicLabel
                      /\ \E j \in 1..Len(osAddrs[n]) : osAddrs[n][j] = Emitted[k].Address

C1_Witness ==
    /\ Succeeded /\ ~public /\ ~all
    /\ Len(interfaces) = 3
    /\ Len(osAddrs[1]) = 2 /\ Len(osAddrs[2]) = 0 /\ Len(osAddrs[3]) = 1
    /\ Len(Emitted) = 3

\* C2: with public=true and all=false the local interface table is never
\* enumerated (no call of net.Interfaces or Addrs), and when the lookup
\* succeeds the output is exactly one record, whose Interface is "public".
C2_PublicOnly ==
    (public /\ ~all) =>
        /\ Count("net.Interfaces") = 0 /\ Count("Addrs") = 0
        /\ Succeeded =>
              /\ Len(DataLines) = 1
              /\ Len(Emitted) = 1
              /\ Emitted[1].Interface = PublicLabel
              /\ Emitted = publicIp

C2_Witness == Succeeded /\ public /\ ~all /\ Len(DataLines) = 1 /\ ~jsonOutput

\* C3: with all=true a successful run emits the public record first and then
\* all local records in enumeration order; the output is determined by the
\* lookup result and the interface table alone, so it is the same for
\* public=true and public=false.
C3_AllMode ==
    (Succeeded /\ all) =>
        /\ EnumerationDone
        /\ Len(publicIp) = 1
        /\ publicIp[1].Interface = PublicLabel
        /\ Emitted = publicIp \o LocalRecords(Len(interfaces))

C3_Witness ==
    /\ Succeeded /\ all /\ public
    /\ Len(interfaces) = 2 /\ Len(osAddrs[1]) = 1 /\ Len(osAddrs[2]) = 2
    /\ Len(Emitted) = 4

\* C4: when the public lookup fails the process prints no data line, does
\* not enumerate the local interfaces and exits with code 1.
C4_LookupFails ==
    (err \in LookupErrs) =>
        /\ public \/ all
        /\ DataLines = <<>>
        /\ Count("net.Interfaces") = 0 /\ Count("Addrs") = 0
        /\ Exited => exitCode = 1

C4_Witness == Exited /\ err = "io.ReadAll" /\ all /\ jsonOutput /\ exitCode = 1

\* C5: when net.Interfaces or an interface's Addrs fails (the first, a middle
\* or the last interface) the process prints no data line and exits with code
\* 1, whatever was collected before.
C5_EnumerationFails ==
    (err \in EnumErrs) =>
        /\ DataLines = <<>>
        /\ Exited => exitCode = 1

\* the read of the middle one of three interfaces fails after the public record
\* and the first interface's records were collected
C5_Witness ==
    /\ Exited /\ err = "Addrs" /\ exitCode = 1
    /\ all /\ Len(publicIp) = 1
    /\ Len(interfaces) = 3 /\ idx = 2
    /\ Len(ips.elems) = 3

\* C6, as stated: the logger's minimum level is warn for logLevel 0, info for
\* 1 and debug for every logLevel of 2 or more.
C6_LevelMapping ==
    pc # "main" =>
        handlerLevel = (IF logLevel = 0 THEN LevelWarn
                        ELSE IF logLevel = 1 THEN LevelInfo
                        ELSE LevelDebug)

C9_SingleLookup ==
    /\ Count("client.Do") <= 1
    /\ \A k \in 1..Len(calls) : calls[k] = "client.Do" => k = 1
    /\ (pc \in {"netInterfaces", "addrs", "run", "exit", "exited"}) =>
           Count("client.Do") = (IF public \/ all THEN 1 ELSE 0)

C9_Witness == Exited /\ all /\ ~public /\ Len(calls) = 3 /\ calls[1] = "client.Do"

\* C10: when the response body is readable the lookup returns one record with
\* Interface "public" and the body without its surrounding white space as
\* Address, whatever the status code and also when nothing is left; the
\* record is appended to the collection; success never comes without a record.
C10_LookupResult ==
    [][(pc = "readAll") =>
          /\ resp.Readable =>
                /\ err' = NoErr
                /\ Len(publicIp') = 1
                /\ publicIp'[1].Interface = PublicLabel
                /\ IsTrimOf(publicIp'[1].Address, resp.Body)
                /\ ips'.elems = <<publicIp'[1]>>
          /\ err' = NoErr => Len(publicIp') = 1]_vars

\* a run that got a body of white space only
C10_Witness ==
    /\ Succeeded /\ public /\ ~all
    /\ publicIp = <<[Address |-> <<>>, Interface |-> PublicLabel]>>
    /\ Len(DataLines) = 1

====
